---------------------------- MODULE Spec2Model ----------------------------
(***************************************************************************)
(* RF link budget, throughput and BER calculator ("BER, Throughput, and    *)
(* Link Budget for RF.py", kept as src/unnamed/part_000).                   *)
(*                                                                         *)
(* Python floats are modelled as binary floating-point numbers m * 2^e     *)
(* with a signed mantissa of P significant bits, rounded to nearest, ties  *)
(* to even, after every operation, exactly as IEEE-754 doubles are (P = 53 *)
(* there).  The exponent is unbounded: overflow, underflow, infinities and *)
(* NaN are outside the model.                                               *)
(*                                                                         *)
(* The last part models ContactTimes.contactTime of src/ContactTime.py,    *)
(* with whole-number times.                                                 *)
(***************************************************************************)
EXTENDS Integers, Sequences, FiniteSets, TLC

\* Significant bits of a float in the calls and in the link evaluation.
MantBits == 10

\* Significant bits of a float in the default-argument solver run (SpecTight).
FineBits == 24

\* The largest max_iter passed to the solver, besides 0, 1 and the default.
MaxIterBound == 6

VARIABLES
    prec,    \* significant bits of every float of the run
    pc,      \* position of the running call or script
    fn,      \* the function called
    args,    \* the arguments it is called with
    res,     \* what the call did: the value returned or the exception raised
    lo,      \* required_ebn0_for_target_ber: lower bracket end
    hi,      \* required_ebn0_for_target_ber: upper bracket end
    it,      \* required_ebn0_for_target_ber: passes of the for loop completed
    main,    \* what runs: one call of a function ("call"), the script, or
             \* the construction of a ContactTimes object
    cfg,     \* the script's USER INPUTS
    env,     \* the script's calculated globals
    out,     \* what the script has printed
    self,    \* the ContactTimes object: its attributes
    frame    \* ContactTimes.contactTime: its local variables

vars == <<prec, pc, fn, args, res, lo, hi, it, main, cfg, env, out, self, frame>>

-----------------------------------------------------------------------------
(* Floating point: a float is [m |-> mantissa, e |-> exponent], value m*2^e, *)
(* m = 0 (and e = 0) or 2^(P-1) <= |m| < 2^P.                               *)

\* Op(v), with v evaluated once, whatever Op does with it.
Bind(v, Op(_)) == CHOOSE y \in {Op(x) : x \in {v}} : TRUE

Abs(n) == IF n < 0 THEN -n ELSE n

Sgn(n) == IF n < 0 THEN -1 ELSE IF n = 0 THEN 0 ELSE 1

\* The number of bits of n, 0 <= n < 2^31.
BitLen(n) == CHOOSE k \in 0..31 : (k = 0 \/ 2^(k - 1) <= n) /\ (k = 31 \/ n < 2^k)

Zero == [m |-> 0, e |-> 0]

\* a * 2^e, a > 0, rounded to P significant bits, where a has P + k bits.
RoundTo(P, a, e, k) ==
    IF k <= 0 THEN [m |-> a * 2^(-k), e |-> e + k]
    ELSE Bind(<<a \div 2^k, a % 2^k, 2^(k - 1)>>, LAMBDA t :
             LET q2 == IF t[2] > t[3] \/ (t[2] = t[3] /\ t[1] % 2 = 1)
                       THEN t[1] + 1 ELSE t[1]
             IN  IF q2 = 2^P THEN [m |-> 2^(P - 1), e |-> e + k + 1]
                 ELSE [m |-> q2, e |-> e + k])

\* n * 2^e rounded to P significant bits, to nearest, ties to even.
Round(P, n, e) ==
    Bind(<<n, e>>, LAMBDA t :
        IF t[1] = 0 THEN Zero
        ELSE Bind(BitLen(Abs(t[1])) - P, LAMBDA k :
                 Bind(RoundTo(P, Abs(t[1]), t[2], k), LAMBDA r :
                     [m |-> Sgn(t[1]) * r.m, e |-> r.e])))

\* The float a rounded to P bits.
Rnd(P, a) == Bind(a, LAMBDA x : Round(P, x.m, x.e))

FNeg(a) == Bind(a, LAMBDA x : [m |-> -x.m, e |-> x.e])

\* The exponent of the leading bit: floor(log2 |a|) + 1.
TopExp(a) == Bind(a, LAMBDA x : x.e + BitLen(Abs(x.m)))

\* a < b for a >= 0, b >= 0, exactly, for floats of up to 30 bits.
FLtPos(a, b) ==
    IF b.m = 0 THEN FALSE
    ELSE IF a.m = 0 THEN TRUE
    ELSE Bind(<<BitLen(a.m), BitLen(b.m)>>, LAMBDA l :
             IF a.e + l[1] # b.e + l[2] THEN a.e + l[1] < b.e + l[2]
             ELSE IF l[1] > l[2] THEN a.m < b.m * 2^(l[1] - l[2])
             ELSE a.m * 2^(l[2] - l[1]) < b.m)

\* a < b, exactly.
FLt(a, b) ==
    Bind(<<a, b>>, LAMBDA t :
        IF t[1].m < 0 /\ t[2].m >= 0 THEN TRUE
        ELSE IF t[1].m >= 0 /\ t[2].m < 0 THEN FALSE
        ELSE IF t[1].m < 0 THEN FLtPos([m |-> -t[2].m, e |-> t[2].e],
                                       [m |-> -t[1].m, e |-> t[1].e])
        ELSE FLtPos(t[1], t[2]))

FLe(a, b) == ~FLt(b, a)

FGt(a, b) == FLt(b, a)

FGe(a, b) == ~FLt(a, b)

\* Python's max(a, b): b only when it compares greater.
FMax(a, b) == Bind(<<a, b>>, LAMBDA t : IF FLt(t[1], t[2]) THEN t[2] ELSE t[1])

\* x + y for floats of P bits with x.e >= y.e, neither zero.  The smaller
\* operand is aligned with three guard bits and a sticky bit, as a hardware
\* adder does.
AddAligned(P, x, y) ==
    IF x.e - y.e <= 3 THEN Round(P, x.m * 2^(x.e - y.e) + y.m, y.e)
    ELSE Bind(x.e - y.e - 3, LAMBDA sh :
             Bind(IF sh > P THEN 1
                  ELSE 2 * (Abs(y.m) \div 2^sh)
                       + (IF Abs(y.m) % 2^sh # 0 THEN 1 ELSE 0), LAMBDA Y :
                 Round(P, Sgn(x.m) * (IF Sgn(x.m) = Sgn(y.m)
                                      THEN Abs(x.m) * 16 + Y
                                      ELSE Abs(x.m) * 16 - Y),
                       x.e - 4)))

\* a + b rounded to P bits.
FAdd(P, a, b) ==
    Bind(<<Rnd(P, a), Rnd(P, b)>>, LAMBDA t :
        IF t[1].m = 0 THEN t[2]
        ELSE IF t[2].m = 0 THEN t[1]
        ELSE IF t[1].e >= t[2].e THEN AddAligned(P, t[1], t[2])
        ELSE AddAligned(P, t[2], t[1]))

FSub(P, a, b) == FAdd(P, a, FNeg(b))

\* The product of the mantissas ma and mb, of P bits, in units of 2^(2H - 1)
\* with the bits below kept as a sticky bit: the mantissas are multiplied in
\* halves of H and P - H bits.
MulHalves(H, ma, mb) ==
    Bind(<<ma \div 2^H, ma % 2^H, mb \div 2^H, mb % 2^H>>, LAMBDA h :
        Bind(<<h[1] * h[3], h[1] * h[4] + h[2] * h[3] + (h[2] * h[4]) \div 2^H,
               (h[2] * h[4]) % 2^H>>, LAMBDA p :
            2 * (p[1] + p[2] \div 2^H)
            + (IF p[2] % 2^H # 0 \/ p[3] # 0 THEN 1 ELSE 0)))

\* a * b rounded to P bits.
FMul(P, a, b) ==
    Bind(<<Rnd(P, a), Rnd(P, b), (P - 3) \div 2>>, LAMBDA t :
        IF t[1].m = 0 \/ t[2].m = 0 THEN Zero
        ELSE Round(P, Sgn(t[1].m) * Sgn(t[2].m)
                      * MulHalves(t[3], Abs(t[1].m), Abs(t[2].m)),
                   t[1].e + t[2].e + 2 * t[3] - 1))

\* Long division: k more quotient bits of r / den, r < den < 2^25, six bits
\* at a time; qr is <<quotient so far, remainder>>.
DivStep(qr, den, k) ==
    Bind(qr, LAMBDA t : <<t[1] * 2^k + (t[2] * 2^k) \div den, (t[2] * 2^k) % den>>)

\* floor(ma * 2^28 / mb) and the remainder, 0 < ma < 2 * mb.
DivBits(ma, mb) ==
    DivStep(DivStep(DivStep(DivStep(DivStep(<<ma \div mb, ma % mb>>, mb, 6),
                                    mb, 6), mb, 6), mb, 6), mb, 4)

\* a / b rounded to P bits, b # 0.
FDiv(P, a, b) ==
    Bind(<<Rnd(P, a), Rnd(P, b)>>, LAMBDA t :
        IF t[1].m = 0 THEN Zero
        ELSE Bind(DivBits(Abs(t[1].m), Abs(t[2].m)), LAMBDA qr :
                 Round(P, Sgn(t[1].m) * Sgn(t[2].m)
                          * (2 * qr[1] + (IF qr[2] # 0 THEN 1 ELSE 0)),
                       t[1].e - t[2].e - 29)))

\* The ratio n / d of two integers, as a float.
FRat(P, n, d) ==
    Bind(FDiv(25, Round(25, n, 0), Round(25, d, 0)), LAMBDA q : Round(P, q.m, q.e))

-----------------------------------------------------------------------------
(* math.log2, math.log10 and float ** : computed in 25-bit arithmetic, which *)
(* is about 2^-20 accurate, then rounded to P bits.                         *)

\* k more bits of the binary logarithm of y, 1 <= y < 2, by repeated
\* squaring; yf is <<y, the bits so far>>.
RECURSIVE Log2Bits(_, _)
Log2Bits(yf, k) ==
    IF k = 0 THEN yf[2]
    ELSE Bind(FMul(25, yf[1], yf[1]), LAMBDA y2 :
             IF TopExp(y2) >= 2
             THEN Log2Bits(<<[m |-> y2.m, e |-> y2.e - 1], 2 * yf[2] + 1>>, k - 1)
             ELSE Log2Bits(<<y2, 2 * yf[2]>>, k - 1))

\* log2(x) * 2^23 as an integer, x > 0.
Log2Fix(x) ==
    Bind(Rnd(25, x), LAMBDA xr :
        (xr.e + 24) * 2^23 + Log2Bits(<<[m |-> xr.m, e |-> -24], 0>>, 23))

\* math.log2(x), x > 0.
FLog2(P, x) == Round(P, Log2Fix(x), -23)

\* log10(2) and log2(10), to 25 bits.
Log10Of2 == [m |-> 20201781, e |-> -26]

Log2Of10 == [m |-> 27866353, e |-> -23]

\* math.log10(x), x > 0.
FLog10(P, x) ==
    Bind(FMul(25, Round(25, Log2Fix(x), -23), Log10Of2), LAMBDA r :
        Round(P, r.m, r.e))

\* 2^(2^-i) * 2^24 for i = 1 .. 24.
Exp2Tab ==
    << 23726566, 19951585, 18295684, 17520007, 17144589, 16959908,
       16868315, 16822704, 16799944, 16788576, 16782895, 16780055,
       16778636, 16777926, 16777571, 16777393, 16777305, 16777260,
       16777238, 16777227, 16777222, 16777219, 16777217, 16777217 >>

\* 2^(g / 2^24), 0 <= g < 2^24: the product of 2^(2^-i) over the bits of g
\* from bit i on, times acc.
RECURSIVE Exp2Frac(_, _, _)
Exp2Frac(g, i, acc) ==
    IF i > 24 THEN acc
    ELSE Bind(IF (g \div 2^(24 - i)) % 2 = 1
              THEN FMul(25, acc, [m |-> Exp2Tab[i], e |-> -24])
              ELSE acc, LAMBDA r : Exp2Frac(g, i + 1, r))

\* The floor of the float u and its fraction in units of 2^-24.
FloorFrac(u) ==
    IF u.e >= 0 THEN <<u.m * 2^u.e, 0>>
    ELSE IF -u.e > 30 THEN (IF u.m < 0 THEN <<-1, 2^24 - 1>> ELSE <<0, 0>>)
    ELSE IF -u.e >= 24 THEN <<u.m \div 2^(-u.e), (u.m % 2^(-u.e)) \div 2^(-u.e - 24)>>
    ELSE <<u.m \div 2^(-u.e), (u.m % 2^(-u.e)) * 2^(24 + u.e)>>

\* 10 ** t.
FPow10(P, t) ==
    Bind(FMul(25, t, Log2Of10), LAMBDA u :
        Bind(FloorFrac(u), LAMBDA ig :
            Bind(Exp2Frac(ig[2], 1, [m |-> 2^24, e |-> -24]), LAMBDA r :
                Round(P, r.m, r.e + ig[1]))))

-----------------------------------------------------------------------------
(* Python values: exceptions and results of calls.                          *)

\* No exception.
NoExc == [type |-> "None", msg |-> <<>>, fmt |-> <<>>]

\* ValueError("..."): msg is the message, word by word; fmt lists the values
\* formatted into the message (the source's messages are plain literals).
ValueError(words) == [type |-> "ValueError", msg |-> words, fmt |-> <<>>]

RuntimeError(words) == [type |-> "RuntimeError", msg |-> words, fmt |-> <<>>]

ZeroDivisionError ==
    [type |-> "ZeroDivisionError", msg |-> <<"float", "division", "by", "zero">>,
     fmt |-> <<>>]

\* return v
Ok(v) == [exc |-> NoExc, val |-> <<v>>]

\* raise e
Raise(e) == [exc |-> e, val |-> <<>>]

Raised(r) == r.exc.type # "None"

\* A call that has not finished.
Pending == [exc |-> NoExc, val |-> <<>>]

-----------------------------------------------------------------------------
(* Constants and float literals of the source.                              *)

F(n) == Round(prec, n, 0)

\* c = 299792458.0
c == Round(prec, 299792458, 0)

\* k_db = -228.6
k_db == FRat(prec, -2286, 10)

\* pi = math.pi
pi == Round(prec, 26353589, -23)

\* 1e12 = 5^12 * 2^12
OneE12 == Round(prec, 244140625, 12)

\* The default written as 1e-3.
DefaultTol_Loose == FRat(prec, 1, 1000)

\* tol = 1e-12
DefaultTol == 
    LET q == FDiv(25, [m |-> 1, e |-> 0], [m |-> 244140625, e |-> 12])
    IN  Round(prec, q.m, q.e)

\* max_iter = 200
DefaultMaxIter == 200

-----------------------------------------------------------------------------
(* Helper functions.                                                        *)

db_to_lin(x_db) == Ok(FPow10(prec, FDiv(prec, x_db, F(10))))

\* math.log10 raises ValueError("math domain error") unless x > 0.
lin_to_db(x_lin) ==
    IF x_lin.m <= 0 THEN Raise(ValueError(<<"math", "domain", "error">>))
    ELSE Ok(FMul(prec, F(10), FLog10(prec, x_lin)))

w_to_dbw(P_w) ==
    IF P_w.m <= 0 THEN Raise(ValueError(<<"P_tx_W", "must", "be", ">", "0">>))
    ELSE Ok(FMul(prec, F(10), FLog10(prec, P_w)))

-----------------------------------------------------------------------------
(* Link budget functions.                                                   *)

\* The check of wavelength_m with the message of fspl_db pasted in.
wavelength_m_WrongName(f_hz) ==
    IF f_hz.m <= 0 THEN Raise(ValueError(<<"R_m", "must", "be", ">", "0">>))
    ELSE Ok(FDiv(prec, c, f_hz))

wavelength_m(f_hz) ==
    IF f_hz.m <= 0 THEN Raise(ValueError(<<"f_hz", "must", "be", ">", "0">>))
    ELSE Ok(FDiv(prec, c, f_hz))

fspl_db(R_m, f_hz) ==
    IF R_m.m <= 0 THEN Raise(ValueError(<<"R_m", "must", "be", ">", "0">>))
    ELSE LET lam == wavelength_m(f_hz)
         IN  IF Raised(lam) THEN lam
             ELSE Ok(FMul(prec, F(20),
                      FLog10(prec, FDiv(prec, FMul(prec, FMul(prec, F(4), pi), R_m),
                                        lam.val[1]))))

eirp_dbw(P_tx_dBW, G_tx_dBi, L_tx_dB, L_point_tx_dB) ==
    Ok(FSub(prec, FSub(prec, FAdd(prec, P_tx_dBW, G_tx_dBi), L_tx_dB), L_point_tx_dB))

total_path_loss_db(L_fs_dB, L_atm_dB, L_rain_dB, L_pol_dB, L_point_rx_dB, L_misc_dB) ==
    Ok(FAdd(prec, FAdd(prec, FAdd(prec, FAdd(prec, FAdd(prec, L_fs_dB, L_atm_dB),
                                             L_rain_dB), L_pol_dB), L_point_rx_dB),
            L_misc_dB))

received_carrier_power_dbw(EIRP_dBW, L_path_dB, G_rx_dBi) ==
    Ok(FAdd(prec, FSub(prec, EIRP_dBW, L_path_dB), G_rx_dBi))

noise_density_dbw_per_hz(T_sys_K) ==
    IF T_sys_K.m <= 0 THEN Raise(ValueError(<<"T_sys_K", "must", "be", ">", "0">>))
    ELSE Ok(FAdd(prec, k_db, FMul(prec, F(10), FLog10(prec, T_sys_K))))

cn0_dbhz(C_dBW, N0_dBW_per_Hz) == Ok(FSub(prec, C_dBW, N0_dBW_per_Hz))

ebn0_db(CN0_dBHz, Rb_bps, L_impl_dB) ==
    IF Rb_bps.m <= 0 THEN Raise(ValueError(<<"Rb_bps", "must", "be", ">", "0">>))
    ELSE LET Rb_dB == FMul(prec, F(10), FLog10(prec, Rb_bps))
         IN  Ok(FSub(prec, FSub(prec, CN0_dBHz, Rb_dB), L_impl_dB))

-----------------------------------------------------------------------------
(* Throughput functions.                                                    *)

\* The roll-off check written alpha <= 0.
symbol_rate_from_bandwidth_StrictAlpha(B_occ_hz, alpha) ==
    IF B_occ_hz.m <= 0
    THEN Raise(ValueError(<<"B_occ_hz", "must", "be", ">", "0">>))
    ELSE IF alpha.m <= 0
    THEN Raise(ValueError(<<"alpha", "must", "be", ">=", "0">>))
    ELSE Ok(FDiv(prec, B_occ_hz, FAdd(prec, F(1), alpha)))

symbol_rate_from_bandwidth(B_occ_hz, alpha) ==
    IF B_occ_hz.m <= 0
    THEN Raise(ValueError(<<"B_occ_hz", "must", "be", ">", "0">>))
    ELSE IF alpha.m < 0
    THEN Raise(ValueError(<<"alpha", "must", "be", ">=", "0">>))
    ELSE Ok(FDiv(prec, B_occ_hz, FAdd(prec, F(1), alpha)))

gross_bit_rate_from_symbol_rate(Rs_sps, M) ==
    IF Rs_sps.m <= 0 THEN Raise(ValueError(<<"Rs_sps", "must", "be", ">", "0">>))
    ELSE IF FLe(M, F(1)) THEN Raise(ValueError(<<"M", "must", "be", ">", "1">>))
    ELSE Ok(FMul(prec, Rs_sps, FLog2(prec, M)))

-----------------------------------------------------------------------------
(* BER functions (QPSK uncoded coherent Gray, AWGN).                        *)
(*                                                                         *)
(* A probability is an integer number of 1e-9.  The BER is returned rounded *)
(* up to the next probability of the grid below, so that comparing it with  *)
(* a probability of the grid gives what the comparison of the doubles       *)
(* gives.  A row <<p, m, e>> says that m * 2^e is the least 30-bit float x  *)
(* with 0.5 * math.erfc(math.sqrt(x)) <= p * 1e-9.                          *)

BerCross ==
    << <<500000000, 0, 0>>,
       <<499900000, 565939033, -54>>,
       <<250000000, 976968530, -32>>,
       <<100000000, 881743051, -30>>,
       <<1000000, 640858493, -27>>,
       <<1000, 758163823, -26>>,
       <<1, 603538351, -25>>,
       <<0, 776131717, -20>> >>

SetMin(S) == CHOOSE x \in S : \A y \in S : x <= y

ber_qpsk_uncoded_awgn_from_ebn0_lin(ebn0_lin) ==
    IF ebn0_lin.m < 0
    THEN Raise(ValueError(<<"EbN0_lin", "must", "be", ">=", "0">>))
    ELSE Ok(SetMin({BerCross[i][1] : i \in
                {j \in 1..Len(BerCross) :
                    FGe(ebn0_lin, [m |-> BerCross[j][2], e |-> BerCross[j][3]])}}))

\* The implementation loss added instead of subtracted.
rb_max_for_target_AddsLoss(CN0_dBHz, EbN0_req_dB, L_impl_dB) ==
    LET rb_max_db == FAdd(prec, FSub(prec, CN0_dBHz, EbN0_req_dB), L_impl_dB)
    IN  Ok(FPow10(prec, FDiv(prec, rb_max_db, F(10))))

rb_max_for_target(CN0_dBHz, EbN0_req_dB, L_impl_dB) ==
    LET rb_max_db == FSub(prec, FSub(prec, CN0_dBHz, EbN0_req_dB), L_impl_dB)
    IN  Ok(FPow10(prec, FDiv(prec, rb_max_db, F(10))))

-----------------------------------------------------------------------------
(* required_ebn0_for_target_ber(BER_target, tol, max_iter), step by step.   *)

Solver == "required_ebn0_for_target_ber"

BER_target == args[1]

tol == args[2]

max_iter == args[3]

\* Where control goes when the running call raises: a call ends, the script
\* dies with a traceback.
Unwind == IF main = "script" THEN "traceback" ELSE "done"

\* The ceiling written as 1e1.
AboveCeiling_1e1(h) == FGt(h, F(10))

\* hi > 1e12
AboveCeiling(h) == FGt(h, OneE12)

\* The width test without the division by max(1.0, hi).
Converged_Absolute(l, h, t) == FLt(FSub(prec, h, l), t)

\* (hi - lo) / max(1.0, hi) < tol
Converged(l, h, t) == FLt(FDiv(prec, FSub(prec, h, l), FMax(F(1), h)), t)

\* The validation with 0.5 let through.
SolveEnter_Inclusive(t, tl, mi) ==
    /\ fn' = Solver
    /\ args' = <<t, tl, mi>>
    /\ IF ~(0 < t /\ t <= 500000000)
       THEN /\ res' = Raise(ValueError(<<"BER_target", "must", "be", "between",
                                       "0", "and", "0.5", "(exclusive)">>))
            /\ pc' = Unwind
            /\ UNCHANGED <<lo, hi, it>>
       ELSE /\ res' = Pending
            /\ pc' = "bracket"
            /\ lo' = Zero
            /\ hi' = F(1)
            /\ it' = 0

\* Lines 119-123: the validation, then lo = 0.0, hi = 1.0.
SolveEnter(t, tl, mi) ==
    /\ fn' = Solver
    /\ args' = <<t, tl, mi>>
    /\ IF ~(0 < t /\ t < 500000000)
       THEN /\ res' = Raise(ValueError(<<"BER_target", "must", "be", "between",
                                       "0", "and", "0.5", "(exclusive)">>))
            /\ pc' = Unwind
            /\ UNCHANGED <<lo, hi, it>>
       ELSE /\ res' = Pending
            /\ pc' = "bracket"
            /\ lo' = Zero
            /\ hi' = F(1)
            /\ it' = 0

\* Lines 125-128: one pass of the while loop.
BracketStep ==
    /\ pc = "bracket"
    /\ LET b == ber_qpsk_uncoded_awgn_from_ebn0_lin(hi)
       IN  /\ Raised(b) \/ b.val[1] > BER_target
           /\ IF Raised(b)
              THEN res' = b /\ pc' = Unwind /\ hi' = hi
              ELSE /\ hi' = FMul(prec, hi, F(2))
                   /\ IF AboveCeiling(hi')
                      THEN /\ res' = Raise(RuntimeError(
                                   <<"Failed", "to", "bracket", "solution", "for",
                                     "Eb/N0.", "Check", "BER_target.">>))
                           /\ pc' = Unwind
                      ELSE res' = res /\ pc' = "bracket"
    /\ UNCHANGED <<prec, fn, args, lo, it, main, cfg, env, out, self, frame>>

\* Line 125 false: the while loop ends; line 130 starts the for loop.
BracketExit ==
    /\ pc = "bracket"
    /\ LET b == ber_qpsk_uncoded_awgn_from_ebn0_lin(hi)
       IN  ~Raised(b) /\ ~(b.val[1] > BER_target)
    /\ pc' = IF max_iter > 0 THEN "bisect" ELSE "ret"
    /\ UNCHANGED <<prec, fn, args, res, lo, hi, it, main, cfg, env, out, self, frame>>

\* The for loop as a loop that only the width test ends.
Bisect_NoCap ==
    /\ pc = "bisect"
    /\ LET mid     == FMul(prec, Round(prec, 1, -1), FAdd(prec, lo, hi))
           ber_mid == ber_qpsk_uncoded_awgn_from_ebn0_lin(mid)
       IN  /\ IF ber_mid.val[1] > BER_target
              THEN lo' = mid /\ hi' = hi
              ELSE hi' = mid /\ lo' = lo
           /\ pc' = IF Converged(lo', hi', tol) THEN "ret" ELSE "bisect"
    /\ UNCHANGED <<prec, fn, args, res, it, main, cfg, env, out, self, frame>>

\* Lines 130-140: one pass of the for loop.
Bisect ==
    /\ pc = "bisect"
    /\ LET mid     == FMul(prec, Round(prec, 1, -1), FAdd(prec, lo, hi))
           ber_mid == ber_qpsk_uncoded_awgn_from_ebn0_lin(mid)
       IN  IF Raised(ber_mid)
           THEN res' = ber_mid /\ pc' = Unwind /\ UNCHANGED <<lo, hi, it>>
           ELSE /\ IF ber_mid.val[1] > BER_target
                   THEN lo' = mid /\ hi' = hi
                   ELSE hi' = mid /\ lo' = lo
                /\ it' = it + 1
                /\ pc' = IF Converged(lo', hi', tol) \/ it + 1 >= max_iter
                         THEN "ret" ELSE "bisect"
                /\ res' = res
    /\ UNCHANGED <<prec, fn, args, main, cfg, env, out, self, frame>>

\* The midpoint of the bracket returned instead of hi.
SolveReturn_Midpoint ==
    /\ pc = "ret"
    /\ LET ebn0_req_lin == FMul(prec, Round(prec, 1, -1), FAdd(prec, lo, hi))
       IN  /\ res' = Ok(<<ebn0_req_lin, lin_to_db(ebn0_req_lin).val[1]>>)
           /\ pc' = IF main = "script" THEN "unpack" ELSE "done"
    /\ UNCHANGED <<prec, fn, args, lo, hi, it, main, cfg, env, out, self, frame>>

\* Lines 142-144: return hi and lin_to_db(hi).
SolveReturn ==
    /\ pc = "ret"
    /\ LET ebn0_req_lin == hi
           ebn0_req_dB  == lin_to_db(hi)
       IN  IF Raised(ebn0_req_dB)
           THEN res' = ebn0_req_dB /\ pc' = Unwind
           ELSE /\ res' = Ok(<<ebn0_req_lin, ebn0_req_dB.val[1]>>)
                /\ pc' = IF main = "script" THEN "unpack" ELSE "done"
    /\ UNCHANGED <<prec, fn, args, lo, hi, it, main, cfg, env, out, self, frame>>

-----------------------------------------------------------------------------
(* Calls of the functions, one per behaviour, with arguments from small     *)
(* sets around the bounds of each domain.                                   *)

\* n * 10^k, k >= 0.
Dec(n, k) == Round(prec, n * 5^k, k)

Scalars == {F(-3), FRat(prec, -1, 2), Zero, FRat(prec, 1, 5), F(1), F(4), F(500)}

Decibels == {F(-20), Zero, FRat(prec, 1, 2), FRat(prec, 21, 2), F(40),
             FRat(prec, 753, 10), FRat(prec, 1151, 10)}

Probabilities == {-1, 0, 1, 1000, 1000000, 100000000, 250000000, 499900000,
                  500000000, 700000000}

Tolerances == {DefaultTol, F(-1), Zero, Round(prec, 1, -6), F(1), F(4)}

Iterations == {-1, 0, 1, MaxIterBound, DefaultMaxIter}

Call(f, a, r) ==
    /\ pc = "idle"
    /\ main = "call"
    /\ fn' = f
    /\ args' = a
    /\ res' = r
    /\ pc' = "done"
    /\ UNCHANGED <<prec, lo, hi, it, main, cfg, env, out, self, frame>>

Call_db_to_lin == \E x \in Decibels : Call("db_to_lin", <<x>>, db_to_lin(x))

Call_lin_to_db == \E x \in Scalars : Call("lin_to_db", <<x>>, lin_to_db(x))

Call_w_to_dbw == \E x \in Scalars : Call("w_to_dbw", <<x>>, w_to_dbw(x))

Call_wavelength_m ==
    \E f \in Scalars \cup {Dec(20, 9)} : Call("wavelength_m", <<f>>, wavelength_m(f))

Call_fspl_db ==
    \E R \in {F(-3), Zero, F(1), Dec(1200, 3)}, f \in {F(-3), Zero, F(1), Dec(20, 9)} :
        Call("fspl_db", <<R, f>>, fspl_db(R, f))

Call_noise_density_dbw_per_hz ==
    \E T \in Scalars :
        Call("noise_density_dbw_per_hz", <<T>>, noise_density_dbw_per_hz(T))

Call_ebn0_db ==
    \E cn0 \in {F(40), FRat(prec, 1151, 10)},
       Rb \in Scalars \cup {Dec(5, 7)},
       L \in {Zero, FRat(prec, 1, 2)} :
        Call("ebn0_db", <<cn0, Rb, L>>, ebn0_db(cn0, Rb, L))

Call_symbol_rate_from_bandwidth ==
    \E B \in {F(-3), Zero, F(1), Dec(100, 6)}, a \in Scalars :
        Call("symbol_rate_from_bandwidth", <<B, a>>, symbol_rate_from_bandwidth(B, a))

Call_gross_bit_rate_from_symbol_rate ==
    \E Rs \in {F(-3), Zero, F(1), Dec(5, 7)}, M \in {F(-3), Zero, F(1), F(2), F(4), F(16)} :
        Call("gross_bit_rate_from_symbol_rate", <<Rs, M>>,
             gross_bit_rate_from_symbol_rate(Rs, M))

Call_ber_qpsk_uncoded_awgn_from_ebn0_lin ==
    \E x \in Scalars \cup {F(11), F(12), F(18), F(1000)} :
        Call("ber_qpsk_uncoded_awgn_from_ebn0_lin", <<x>>,
             ber_qpsk_uncoded_awgn_from_ebn0_lin(x))

Call_rb_max_for_target ==
    \E cn0 \in Decibels, req \in Decibels, L \in {Zero, FRat(prec, 1, 2), F(2)} :
        Call("rb_max_for_target", <<cn0, req, L>>, rb_max_for_target(cn0, req, L))

Call_required_ebn0_for_target_ber ==
    /\ pc = "idle"
    /\ main = "call"
    /\ \E t \in Probabilities, tl \in Tolerances, mi \in Iterations :
          SolveEnter(t, tl, mi)
    /\ UNCHANGED <<prec, main, cfg, env, out, self, frame>>

-----------------------------------------------------------------------------
(* The module-level script: USER INPUTS (cfg), CALCULATIONS (one step per    *)
(* assignment, env holds the names assigned so far), OUTPUTS (out).          *)

\* Lines 157-213: the inputs as the file has them.
Reference ==
    [f_hz |-> Dec(20, 9), R_m |-> Dec(1200, 3),
     P_tx_dBW |-> F(10), G_tx_dBi |-> F(30), L_tx_dB |-> F(1), L_point_tx_dB |-> Zero,
     L_atm_dB |-> FRat(prec, 1, 2), L_rain_dB |-> Zero, L_pol_dB |-> Zero,
     L_point_rx_dB |-> Zero, L_misc_dB |-> Zero,
     G_rx_dBi |-> F(55), T_sys_K |-> F(500),
     B_occ_hz |-> Dec(100, 6), alpha |-> FRat(prec, 1, 5), M |-> F(4),
     BER_target |-> 1000, L_impl_dB |-> Zero]

\* The inputs after one edit by the user.
Configs ==
    {Reference}
    \cup {[Reference EXCEPT !.B_occ_hz = x] : x \in {Zero, F(-3)}}
    \cup {[Reference EXCEPT !.alpha = x] : x \in {Zero, FRat(prec, -1, 2)}}
    \cup {[Reference EXCEPT !.M = x] : x \in {F(1), F(16)}}
    \cup {[Reference EXCEPT !.f_hz = x] : x \in {Zero, Dec(2, 9)}}
    \cup {[Reference EXCEPT !.R_m = x] : x \in {Zero, F(-3), Dec(36000, 3)}}
    \cup {[Reference EXCEPT !.T_sys_K = x] : x \in {Zero, F(-3)}}
    \cup {[Reference EXCEPT !.G_rx_dBi = x] : x \in {F(30), F(-20)}}
    \cup {[Reference EXCEPT !.L_impl_dB = x] : x \in {F(2)}}
    \cup {[Reference EXCEPT !.BER_target = x] :
             x \in {0, 1, 100000000, 500000000, 700000000}}

\* name = value
Put(e, name, v) == [x \in DOMAIN e \cup {name} |-> IF x = name THEN v ELSE e[x]]

\* A step that catches the exception and goes on with 1.0.
Step_Default(at, name, r, next) ==
    /\ main = "script"
    /\ pc = at
    /\ res' = res
    /\ pc' = next
    /\ env' = Put(env, name, IF Raised(r) THEN F(1) ELSE r.val[1])
    /\ UNCHANGED <<prec, fn, args, lo, hi, it, main, cfg, out, self, frame>>

\* name = <call>: the value is bound, or the exception leaves the script.
Step(at, name, r, next) ==
    /\ main = "script"
    /\ pc = at
    /\ IF Raised(r)
       THEN res' = r /\ pc' = "traceback" /\ env' = env
       ELSE res' = res /\ pc' = next /\ env' = Put(env, name, r.val[1])
    /\ UNCHANGED <<prec, fn, args, lo, hi, it, main, cfg, out, self, frame>>

\* Line 221
Assign_Rs_sps ==
    Step("Rs_sps", "Rs_sps",
         symbol_rate_from_bandwidth(cfg.B_occ_hz, cfg.alpha), "Rb_gross_bps")

\* Line 224
Assign_Rb_gross_bps ==
    Step("Rb_gross_bps", "Rb_gross_bps",
         gross_bit_rate_from_symbol_rate(env.Rs_sps, cfg.M), "eta_bphz")

\* a / b
TrueDiv(a, b) == IF b.m = 0 THEN Raise(ZeroDivisionError) ELSE Ok(FDiv(prec, a, b))

\* Line 227
Assign_eta_bphz ==
    Step("eta_bphz", "eta_bphz", TrueDiv(env.Rb_gross_bps, cfg.B_occ_hz), "lambda_m")

\* Line 231
Assign_lambda_m ==
    Step("lambda_m", "lambda_m", wavelength_m(cfg.f_hz), "L_fs_dB")

\* Line 234
Assign_L_fs_dB ==
    Step("L_fs_dB", "L_fs_dB", fspl_db(cfg.R_m, cfg.f_hz), "EIRP_dBW")

\* Line 237
Assign_EIRP_dBW ==
    Step("EIRP_dBW", "EIRP_dBW",
         eirp_dbw(cfg.P_tx_dBW, cfg.G_tx_dBi, cfg.L_tx_dB, cfg.L_point_tx_dB),
         "L_path_dB")

\* Line 240
Assign_L_path_dB ==
    Step("L_path_dB", "L_path_dB",
         total_path_loss_db(env.L_fs_dB, cfg.L_atm_dB, cfg.L_rain_dB, cfg.L_pol_dB,
                            cfg.L_point_rx_dB, cfg.L_misc_dB),
         "C_dBW")

\* Line 243
Assign_C_dBW ==
    Step("C_dBW", "C_dBW",
         received_carrier_power_dbw(env.EIRP_dBW, env.L_path_dB, cfg.G_rx_dBi),
         "N0_dBW_per_Hz")

\* Line 246
Assign_N0_dBW_per_Hz ==
    Step("N0_dBW_per_Hz", "N0_dBW_per_Hz",
         noise_density_dbw_per_hz(cfg.T_sys_K), "CN0_dBHz")

\* Line 249
Assign_CN0_dBHz ==
    Step("CN0_dBHz", "CN0_dBHz", cn0_dbhz(env.C_dBW, env.N0_dBW_per_Hz), "Rb_gross_dB")

\* Line 252: 10.0 * math.log10(Rb_gross_bps), the expression of lin_to_db.
Assign_Rb_gross_dB ==
    Step("Rb_gross_dB", "Rb_gross_dB", lin_to_db(env.Rb_gross_bps), "EbN0_avail_dB")

\* Line 255
Assign_EbN0_avail_dB ==
    Step("EbN0_avail_dB", "EbN0_avail_dB",
         ebn0_db(env.CN0_dBHz, env.Rb_gross_bps, cfg.L_impl_dB), "EbN0_avail_lin")

\* Line 258
Assign_EbN0_avail_lin ==
    Step("EbN0_avail_lin", "EbN0_avail_lin", db_to_lin(env.EbN0_avail_dB), "BER")

\* Line 261
Assign_BER ==
    Step("BER", "BER", ber_qpsk_uncoded_awgn_from_ebn0_lin(env.EbN0_avail_lin),
         "EbN0_req")

\* Line 264, the call: required_ebn0_for_target_ber(BER_target) with the
\* default tol and max_iter.
Script_required_ebn0_for_target_ber ==
    /\ main = "script"
    /\ pc = "EbN0_req"
    /\ SolveEnter(cfg.BER_target, DefaultTol, DefaultMaxIter)
    /\ UNCHANGED <<prec, main, cfg, env, out, self, frame>>

\* Line 264, the assignment: EbN0_req_lin, EbN0_req_dB = <the pair returned>.
Assign_EbN0_req ==
    /\ main = "script"
    /\ pc = "unpack"
    /\ env' = Put(Put(env, "EbN0_req_lin", res.val[1][1]), "EbN0_req_dB", res.val[1][2])
    /\ pc' = "Margin_dB"
    /\ UNCHANGED <<prec, fn, args, res, lo, hi, it, main, cfg, out, self, frame>>

\* The margin taken as required minus available.
Assign_Margin_dB_Swapped ==
    Step("Margin_dB", "Margin_dB",
         Ok(FSub(prec, env.EbN0_req_dB, env.EbN0_avail_dB)), "Rb_max_bps")

\* Line 267
Assign_Margin_dB ==
    Step("Margin_dB", "Margin_dB",
         Ok(FSub(prec, env.EbN0_avail_dB, env.EbN0_req_dB)), "Rb_max_bps")

\* Line 270
Assign_Rb_max_bps ==
    Step("Rb_max_bps", "Rb_max_bps",
         rb_max_for_target(env.CN0_dBHz, env.EbN0_req_dB, cfg.L_impl_dB), "print")

\* Lines 280-299 in order: the names whose values are printed.
Printed ==
    <<"lambda_m", "L_fs_dB", "L_path_dB", "EIRP_dBW", "C_dBW", "N0_dBW_per_Hz",
      "CN0_dBHz", "Rb_gross_dB", "EbN0_avail_dB", "EbN0_req_dB",
      "BER", "Margin_dB", "Rb_max_bps",
      "Rs_sps", "Rb_gross_bps", "eta_bphz">>

\* Lines 277-299: out is the report, one <<name, value>> per value printed.
Print_outputs ==
    /\ main = "script"
    /\ pc = "print"
    /\ out' = [i \in 1..Len(Printed) |-> <<Printed[i], env[Printed[i]]>>]
    /\ pc' = "exit"
    /\ UNCHANGED <<prec, fn, args, res, lo, hi, it, main, cfg, env, self, frame>>

Init ==
    /\ prec = MantBits
    /\ pc = "idle"
    /\ main = "call"
    /\ fn = "none"
    /\ args = <<>>
    /\ res = Pending
    /\ lo = Zero
    /\ hi = Zero
    /\ it = 0
    /\ cfg = <<>>
    /\ env = <<>>
    /\ out = <<>>
    /\ self = <<>>
    /\ frame = <<>>

Next ==
    \/ Call_db_to_lin
    \/ Call_lin_to_db
    \/ Call_w_to_dbw
    \/ Call_wavelength_m
    \/ Call_fspl_db
    \/ Call_noise_density_dbw_per_hz
    \/ Call_ebn0_db
    \/ Call_symbol_rate_from_bandwidth
    \/ Call_gross_bit_rate_from_symbol_rate
    \/ Call_ber_qpsk_uncoded_awgn_from_ebn0_lin
    \/ Call_rb_max_for_target
    \/ Call_required_ebn0_for_target_ber
    \/ BracketStep
    \/ BracketExit
    \/ Bisect
    \/ SolveReturn

Spec == Init /\ [][Next]_vars

\* Calls of required_ebn0_for_target_ber only.
NextSolver ==
    \/ Call_required_ebn0_for_target_ber
    \/ BracketStep
    \/ BracketExit
    \/ Bisect
    \/ SolveReturn

\* The interpreter goes on to the next statement for as long as there is one.
SpecFair == Init /\ [][NextSolver]_vars /\ WF_vars(NextSolver)

\* The script, run from its first calculation.
InitLink ==
    /\ prec = MantBits
    /\ pc = "Rs_sps"
    /\ main = "script"
    /\ cfg \in Configs
    /\ fn = "none"
    /\ args = <<>>
    /\ res = Pending
    /\ lo = Zero
    /\ hi = Zero
    /\ it = 0
    /\ env = <<>>
    /\ out = <<>>
    /\ self = <<>>
    /\ frame = <<>>

NextLink ==
    \/ Assign_Rs_sps
    \/ Assign_Rb_gross_bps
    \/ Assign_eta_bphz
    \/ Assign_lambda_m
    \/ Assign_L_fs_dB
    \/ Assign_EIRP_dBW
    \/ Assign_L_path_dB
    \/ Assign_C_dBW
    \/ Assign_N0_dBW_per_Hz
    \/ Assign_CN0_dBHz
    \/ Assign_Rb_gross_dB
    \/ Assign_EbN0_avail_dB
    \/ Assign_EbN0_avail_lin
    \/ Assign_BER
    \/ Script_required_ebn0_for_target_ber
    \/ BracketStep
    \/ BracketExit
    \/ Bisect
    \/ SolveReturn
    \/ Assign_EbN0_req
    \/ Assign_Margin_dB
    \/ Assign_Rb_max_bps
    \/ Print_outputs

SpecLink == InitLink /\ [][NextLink]_vars

\* BER targets, each with the implementation loss, in whole dB, that about
\* uses up the margin of the reference link.
MarginLosses ==
    << <<1000, 22>>, <<1000000, 26>>, <<100000000, 34>> >>

\* The loss is edited in steps of 1/32 dB, this many steps either way.
MarginSteps == 16

\* The inputs with the BER target and the implementation loss edited: no
\* loss, 3 dB less and 3 dB more than the loss that uses up the margin, and
\* the losses around it.
MarginConfigs ==
    UNION {{[Reference EXCEPT !.BER_target = MarginLosses[i][1], !.L_impl_dB = L] :
               L \in {Zero, F(MarginLosses[i][2] - 3), F(MarginLosses[i][2] + 3)}
                     \cup {Round(prec, 32 * MarginLosses[i][2] + n, -5) :
                              n \in (-MarginSteps)..MarginSteps}} :
           i \in 1..Len(MarginLosses)}

\* The script run on inputs near zero margin.
InitMargin ==
    /\ prec = MantBits
    /\ pc = "Rs_sps"
    /\ main = "script"
    /\ cfg \in MarginConfigs
    /\ fn = "none"
    /\ args = <<>>
    /\ res = Pending
    /\ lo = Zero
    /\ hi = Zero
    /\ it = 0
    /\ env = <<>>
    /\ out = <<>>
    /\ self = <<>>
    /\ frame = <<>>

SpecMargin == InitMargin /\ [][NextLink]_vars

\* required_ebn0_for_target_ber(BER_target), tol and max_iter left to their
\* defaults, in FineBits arithmetic.
Call_required_ebn0_for_target_ber_defaults ==
    /\ pc = "idle"
    /\ main = "call"
    /\ \E t \in Probabilities : SolveEnter(t, DefaultTol, DefaultMaxIter)
    /\ UNCHANGED <<prec, main, cfg, env, out, self, frame>>

InitTight ==
    /\ prec = FineBits
    /\ pc = "idle"
    /\ main = "call"
    /\ fn = "none"
    /\ args = <<>>
    /\ res = Pending
    /\ lo = Zero
    /\ hi = Zero
    /\ it = 0
    /\ cfg = <<>>
    /\ env = <<>>
    /\ out = <<>>
    /\ self = <<>>
    /\ frame = <<>>

NextTight ==
    \/ Call_required_ebn0_for_target_ber_defaults
    \/ BracketStep
    \/ BracketExit
    \/ Bisect
    \/ SolveReturn

SpecTight == InitTight /\ [][NextTight]_vars

-----------------------------------------------------------------------------
(* ContactTime.py: class ContactTimes.  A datetime is a whole number of      *)
(* ticks since the first midnight, a timedelta a number of ticks, a date the *)
(* number of its day.  A contact window is <<start, stop>>: the duration     *)
(* read with it (line 43) is not used by contactTime.                        *)

\* The last tick a window of the file can start or stop at.
Horizon == 3

\* The most windows a file has.
MaxWindows == 2

\* timedelta(days=1), in ticks.
DayLen == 2

\* The observers of the file, as sorted(self.data.keys()) orders them.
StationNames == <<"Delft", "Granada">>

Windows == {w \in (0..Horizon) \X (0..Horizon) : w[1] <= w[2]}

\* self.data after the file is read: the windows of each observer, in the
\* order of the file.
DataSets ==
    UNION {{[Delft |-> a, Granada |-> b] : a \in [1..n[1] -> Windows],
                                           b \in [1..n[2] -> Windows]} :
           n \in {m \in (0..MaxWindows) \X (0..MaxWindows) : m[1] + m[2] <= MaxWindows}}

\* The stations argument: none given, or a list of names.
StationLists == {<<>>, <<"Delft">>, <<"Granada">>}

\* datetime.date()
Date(t) == t \div DayLen

\* datetime.combine(current.date() + timedelta(days=1), datetime.min.time())
EndOfDay(current) == (Date(current) + 1) * DayLen

Min(a, b) == IF b < a THEN b ELSE a

Max(a, b) == IF b > a THEN b ELSE a

\* not self.stations or station in self.stations
Counted(stations, station) ==
    stations = <<>> \/ \E i \in 1..Len(stations) : stations[i] = station

\* Lines 97-101: the windows of the stations counted, station after station.
RECURSIVE Collected(_, _, _)
Collected(data, stations, i) ==
    IF i > Len(StationNames) THEN <<>>
    ELSE (IF Counted(stations, StationNames[i]) THEN data[StationNames[i]] ELSE <<>>)
         \o Collected(data, stations, i + 1)

\* w put into the sorted list s after every window that starts no later.
RECURSIVE Inserted(_, _)
Inserted(s, w) ==
    IF s = <<>> THEN <<w>>
    ELSE IF s[Len(s)][1] <= w[1] THEN Append(s, w)
    ELSE Append(Inserted(SubSeq(s, 1, Len(s) - 1), w), s[Len(s)])

\* list.sort(key=lambda x: x[0]): by start, windows of equal start in the
\* order they had.
RECURSIVE SortedByStart(_)
SortedByStart(s) ==
    IF s = <<>> THEN <<>>
    ELSE Inserted(SortedByStart(SubSeq(s, 1, Len(s) - 1)), s[Len(s)])

\* The merge that keeps the stop of the window merged last.
MergeStep_LastStop(merged, w) ==
    IF merged = <<>> THEN <<w>>
    ELSE LET last == merged[Len(merged)]
         IN  IF w[1] <= last[2]
             THEN [merged EXCEPT ![Len(merged)] = <<last[1], w[2]>>]
             ELSE Append(merged, w)

\* Lines 106-113: one pass of the merge loop.
MergeStep(merged, w) ==
    IF merged = <<>> THEN <<w>>
    ELSE LET last == merged[Len(merged)]
         IN  IF w[1] <= last[2]
             THEN [merged EXCEPT ![Len(merged)] = <<last[1], Max(last[2], w[2])>>]
             ELSE Append(merged, w)

\* Lines 105-113: the merge loop over intervals[i..].
RECURSIVE MergeFrom(_, _, _)
MergeFrom(intervals, i, merged) ==
    IF i > Len(intervals) THEN merged
    ELSE MergeFrom(intervals, i + 1, MergeStep(merged, intervals[i]))

\* Lines 115-116 over merged[i..].
RECURSIVE TotalFrom(_, _, _)
TotalFrom(merged, i, total) ==
    IF i > Len(merged) THEN total
    ELSE TotalFrom(merged, i + 1, total + (merged[i][2] - merged[i][1]))

\* defaultdict(timedelta): perDay[day] += delta
AddTo(perDay, day, delta) ==
    [d \in DOMAIN perDay \cup {day} |->
        (IF d \in DOMAIN perDay THEN perDay[d] ELSE 0) + (IF d = day THEN delta ELSE 0)]

\* Lines 121-126: the while loop from current to stop.
RECURSIVE DaySegments(_, _, _)
DaySegments(current, stop, perDay) ==
    IF ~(current < stop) THEN perDay
    ELSE LET segment_end == Min(stop, EndOfDay(current))
         IN  DaySegments(segment_end, stop,
                         AddTo(perDay, Date(current), segment_end - current))

\* Lines 118-126 over merged[i..].
RECURSIVE PerDayFrom(_, _, _)
PerDayFrom(merged, i, perDay) ==
    IF i > Len(merged) THEN perDay
    ELSE PerDayFrom(merged, i + 1, DaySegments(merged[i][1], merged[i][2], perDay))

\* min(start for start, stop in merged), merged not empty
MinStart(merged) ==
    CHOOSE t \in {merged[i][1] : i \in 1..Len(merged)} :
        \A i \in 1..Len(merged) : t <= merged[i][1]

\* max(stop for start, stop in merged), merged not empty
MaxStop(merged) ==
    CHOOSE t \in {merged[i][2] : i \in 1..Len(merged)} :
        \A i \in 1..Len(merged) : t >= merged[i][2]

\* Lines 94-103: the windows of the stations counted, sorted by start.
Collect ==
    /\ main = "ContactTimes"
    /\ pc = "contactTime"
    /\ frame' = [intervals |-> SortedByStart(Collected(self.data, self.stations, 1)),
                 merged |-> <<>>]
    /\ pc' = "merge"
    /\ UNCHANGED <<prec, fn, args, res, lo, hi, it, main, cfg, env, out, self>>

\* Lines 105-113
Merge ==
    /\ main = "ContactTimes"
    /\ pc = "merge"
    /\ frame' = [frame EXCEPT !.merged = MergeFrom(frame.intervals, 1, frame.merged)]
    /\ pc' = "total"
    /\ UNCHANGED <<prec, fn, args, res, lo, hi, it, main, cfg, env, out, self>>

\* Lines 115-116
Total ==
    /\ main = "ContactTimes"
    /\ pc = "total"
    /\ self' = [self EXCEPT
                   !.totalContactTime = TotalFrom(frame.merged, 1, self.totalContactTime)]
    /\ pc' = "perDay"
    /\ UNCHANGED <<prec, fn, args, res, lo, hi, it, main, cfg, env, out, frame>>

\* Lines 118-126
PerDay ==
    /\ main = "ContactTimes"
    /\ pc = "perDay"
    /\ self' = [self EXCEPT
                   !.contactPerDay = PerDayFrom(frame.merged, 1, self.contactPerDay)]
    /\ pc' = "window"
    /\ UNCHANGED <<prec, fn, args, res, lo, hi, it, main, cfg, env, out, frame>>

\* Lines 128-131, and the return to line 47.  min() of no windows raises
\* ValueError; avgContactTime, a quotient of two whole numbers, is kept as
\* <<dividend, divisor>>.
Analysis ==
    /\ main = "ContactTimes"
    /\ pc = "window"
    /\ IF frame.merged = <<>>
       THEN /\ res' = Raise(ValueError(<<"min()", "arg", "is", "an", "empty", "sequence">>))
            /\ pc' = "traceback"
            /\ self' = self
       ELSE LET start == MinStart(frame.merged)
                stop == MaxStop(frame.merged)
                length == (Date(stop) - Date(start)) + 1
            IN  /\ self' = Put(Put(Put(Put(self, "start", start), "stop", stop),
                                   "length", length),
                               "avgContactTime", <<self.totalContactTime, length>>)
                /\ pc' = "constructed"
                /\ res' = res
    /\ UNCHANGED <<prec, fn, args, lo, hi, it, main, cfg, env, out, frame>>

\* ContactTimes(filename, stations) with the file read (lines 26-44), about
\* to run self.contactTime() (line 47).
InitContact ==
    /\ prec = MantBits
    /\ pc = "contactTime"
    /\ main = "ContactTimes"
    /\ \E d \in DataSets, s \in StationLists :
           self = [data |-> d, stations |-> s, contactPerDay |-> <<>>,
                   totalContactTime |-> 0]
    /\ frame = <<>>
    /\ fn = "none"
    /\ args = <<>>
    /\ res = Pending
    /\ lo = Zero
    /\ hi = Zero
    /\ it = 0
    /\ cfg = <<>>
    /\ env = <<>>
    /\ out = <<>>

NextContact ==
    \/ Collect
    \/ Merge
    \/ Total
    \/ PerDay
    \/ Analysis

SpecContact == InitContact /\ [][NextContact]_vars

-----------------------------------------------------------------------------
(* Properties of required_ebn0_for_target_ber.                              *)

\* BER(x) for x >= 0.
Ber(x) == ber_qpsk_uncoded_awgn_from_ebn0_lin(x).val[1]

\* 2^k
Pow2(k) == Round(prec, 1, k)

\* A call of the solver has returned its pair.
SolverReturned == fn = Solver /\ pc = "done" /\ ~Raised(res)

\* (hi - lo) / max(1, hi) < tol
RelWidthBelowTol ==
    FLt(FDiv(prec, FSub(prec, hi, lo), IF FLt(hi, F(1)) THEN F(1) ELSE hi), tol)

\* C1: whenever required_ebn0_for_target_ber returns, for any tol and max_iter,
\* the linear value it returns is the final upper bracket hi, and the BER at
\* that value is at most the target.
C1_ReturnedMeetsTarget ==
    SolverReturned =>
        /\ res.val[1][1] = hi
        /\ Ber(res.val[1][1]) <= BER_target

\* A run that the tolerance test stopped before max_iter iterations.
C1_Witness == SolverReturned /\ it >= 1 /\ it < max_iter

\* C2: a target outside the open interval (0, 0.5) ends the call with a
\* ValueError before the bracket is set up (lo, hi and the iteration count are
\* untouched, nothing is returned); a target inside is never refused.
C2_TargetValidated ==
    fn = Solver =>
        IF BER_target \in 1..499999999
        THEN res.exc.type # "ValueError"
        ELSE /\ pc = "done"
             /\ res.exc.type = "ValueError"
             /\ res.val = <<>>
             /\ lo = Zero /\ hi = Zero /\ it = 0

\* The target 0.5 has been refused.
C2_Witness ==
    fn = Solver /\ BER_target = 500000000 /\ res.exc.type = "ValueError"

\* In the while loop hi is 2^k, no iteration has run, and every smaller power
\* of two has a BER above the target; a RuntimeError means hi went above 1e12
\* that way, and nothing was returned.
C3_BracketInv ==
    fn = Solver =>
        /\ pc = "bracket" =>
              /\ lo = Zero /\ it = 0 /\ ~Raised(res)
              /\ FLe(hi, OneE12)
              /\ \E k \in 0..40 :
                    hi = Pow2(k) /\ \A j \in 0..(k - 1) : Ber(Pow2(j)) > BER_target
        /\ res.exc.type = "RuntimeError" =>
              /\ pc = "done" /\ res.val = <<>>
              /\ FGt(hi, OneE12)
              /\ \E k \in 0..41 :
                    hi = Pow2(k) /\ \A j \in 0..(k - 1) : Ber(Pow2(j)) > BER_target

\* The steps of the while loop.
C3_BracketStep ==
    /\ (pc # "bracket" /\ pc' = "bracket") => (lo' = Zero /\ hi' = F(1))
    /\ (pc = "bracket" /\ Ber(hi) > BER_target) =>
          /\ hi' = FMul(prec, hi, F(2))
          /\ lo' = lo
          /\ IF FGt(hi', OneE12)
             THEN res'.exc.type = "RuntimeError" /\ pc' = "done"
             ELSE res' = res /\ pc' = "bracket"
    /\ (pc = "bracket" /\ Ber(hi) <= BER_target) =>
          /\ hi' = hi /\ lo' = lo
          /\ pc' \in {"bisect", "ret"}
          /\ ~Raised(res')
    /\ pc \in {"bisect", "ret"} => res'.exc.type # "RuntimeError"

\* C3: the bracket phase starts at lo = 0, hi = 1 and doubles hi while
\* BER(hi) > target; it raises RuntimeError (not ValueError) exactly when hi
\* passes 1e12 with every tested hi above the target, returning nothing; once a
\* tested hi has BER(hi) <= target the call never raises RuntimeError.
C3_Bracket == [](C3_BracketInv) /\ [][C3_BracketStep]_vars

\* The bracket was found after hi had been doubled.
C3_Witness == fn = Solver /\ pc = "bisect" /\ it = 0 /\ FGt(hi, F(2))

\* The loops are bounded: hi is one of 2^0 .. 2^40 in the while loop, the for
\* loop has run at most max_iter times, and a finished call has either
\* returned a value or raised.
C4_Bounded ==
    fn = Solver =>
        /\ it <= (IF max_iter > 0 THEN max_iter ELSE 0)
        /\ pc = "bisect" => it < max_iter
        /\ pc = "bracket" => \E k \in 0..40 : hi = Pow2(k)
        /\ pc = "done" => IF Raised(res) THEN res.val = <<>> ELSE Len(res.val) = 1

\* C4: every call of required_ebn0_for_target_ber ends, whatever the target,
\* tol (tol <= 0 included) and max_iter, with a value or an error, after a
\* bounded number of doublings and at most max_iter bisections.
C4_Terminates == [](C4_Bounded) /\ ((fn = Solver) ~> (pc = "done"))

\* A call with tol <= 0 that ran all 200 iterations and returned.
C4_Witness ==
    SolverReturned /\ tol.m <= 0 /\ max_iter = DefaultMaxIter /\ it = DefaultMaxIter

\* From the end of the bracket phase on: 0 <= lo <= hi and
\* BER(lo) > target >= BER(hi); the loop goes on only while iterations are left
\* and the width test has failed, and ends on the width test or at max_iter.
C10_BisectInv ==
    (fn = Solver /\ (pc \in {"bisect", "ret"} \/ (pc = "done" /\ ~Raised(res)))) =>
        /\ FLe(Zero, lo) /\ FLe(lo, hi)
        /\ Ber(lo) > BER_target /\ BER_target >= Ber(hi)
        /\ pc = "bisect" => (it < max_iter /\ (it >= 1 => ~RelWidthBelowTol))
        /\ pc # "bisect" =>
              \/ it >= 1 /\ RelWidthBelowTol
              \/ it = max_iter
              \/ it = 0 /\ max_iter <= 0

\* One iteration: the midpoint replaces lo when its BER is above the target,
\* hi otherwise, and the other end stays.
C10_BisectStep ==
    pc = "bisect" =>
        LET mid == FMul(prec, Round(prec, 1, -1), FAdd(prec, lo, hi))
        IN  /\ IF Ber(mid) > BER_target
               THEN lo' = mid /\ hi' = hi
               ELSE hi' = mid /\ lo' = lo
            /\ FLe(lo, lo') /\ FLe(hi', hi)
            /\ it' = it + 1

\* C10: each bisection replaces exactly one end of the bracket by the midpoint
\* (lo when BER(mid) > target, otherwise hi), keeping 0 <= lo <= hi and
\* BER(lo) > target >= BER(hi), lo never decreasing and hi never increasing; the
\* loop exits after the first iteration with (hi - lo) / max(1, hi) < tol and
\* otherwise runs exactly max_iter iterations.
C10_Bisection == [](C10_BisectInv) /\ [][C10_BisectStep]_vars

\* The width test ended the loop after several iterations had raised lo.
C10_Witness ==
    fn = Solver /\ pc = "ret" /\ it >= 3 /\ it < max_iter /\ lo.m > 0

\* C5: for the target 1e-6 with the default tol and max_iter the returned
\* linear value v has BER(v) <= 1e-6 and BER(v * (1 - 1e-6)) > 1e-6.
C5_TightAtDefaults ==
    (fn = Solver /\ pc = "done" /\ BER_target = 1000
        /\ tol = DefaultTol /\ max_iter = DefaultMaxIter) =>
        /\ ~Raised(res)
        /\ LET v == res.val[1][1]
           IN  /\ Ber(v) <= 1000
               /\ Ber(FMul(prec, v, FSub(prec, F(1), FRat(prec, 1, 1000000)))) > 1000

\* The call for 1e-6 with the defaults has returned after bisecting.
C5_Witness ==
    SolverReturned /\ BER_target = 1000 /\ tol = DefaultTol
        /\ max_iter = DefaultMaxIter /\ it >= 1 /\ lo.m > 0

-----------------------------------------------------------------------------
(* Properties of the validated functions.                                   *)

\* A call has ended.
Called(f) == pc = "done" /\ fn = f

\* x <= 0, x < 0
NonPositive(x) == x.m <= 0

Negative(x) == x.m < 0

\* The domain of the function called is violated by its arguments.
DomainViolated ==
    CASE fn = "wavelength_m" -> NonPositive(args[1])
      [] fn = "fspl_db" -> NonPositive(args[1]) \/ NonPositive(args[2])
      [] fn = "noise_density_dbw_per_hz" -> NonPositive(args[1])
      [] fn = "ebn0_db" -> NonPositive(args[2])
      [] fn = "symbol_rate_from_bandwidth" -> NonPositive(args[1]) \/ Negative(args[2])
      [] fn = "gross_bit_rate_from_symbol_rate" ->
            NonPositive(args[1]) \/ FLe(args[2], F(1))
      [] fn = "ber_qpsk_uncoded_awgn_from_ebn0_lin" -> Negative(args[1])

Validated ==
    {"wavelength_m", "fspl_db", "noise_density_dbw_per_hz", "ebn0_db",
     "symbol_rate_from_bandwidth", "gross_bit_rate_from_symbol_rate",
     "ber_qpsk_uncoded_awgn_from_ebn0_lin"}

ValidationError ==
    pc = "done" /\ res.exc.type = "ValueError" /\ fn # "lin_to_db"

\* The parameter whose value broke the domain, and that value.
Offending ==
    CASE fn = "w_to_dbw" -> <<"P_w", args[1]>>
      [] fn = "wavelength_m" -> <<"f_hz", args[1]>>
      [] fn = "fspl_db" ->
            IF NonPositive(args[1]) THEN <<"R_m", args[1]>> ELSE <<"f_hz", args[2]>>
      [] fn = "noise_density_dbw_per_hz" -> <<"T_sys_K", args[1]>>
      [] fn = "ebn0_db" -> <<"Rb_bps", args[2]>>
      [] fn = "symbol_rate_from_bandwidth" ->
            IF NonPositive(args[1]) THEN <<"B_occ_hz", args[1]>> ELSE <<"alpha", args[2]>>
      [] fn = "gross_bit_rate_from_symbol_rate" ->
            IF NonPositive(args[1]) THEN <<"Rs_sps", args[1]>> ELSE <<"M", args[2]>>
      [] fn = "ber_qpsk_uncoded_awgn_from_ebn0_lin" -> <<"ebn0_lin", args[1]>>
      [] fn = Solver -> <<"BER_target", args[1]>>

\* C7 as stated: every validation error carries the name of the parameter that
\* violated its domain and the offending value.
C7_NameAndValue ==
    ValidationError =>
        /\ \E i \in DOMAIN res.exc.msg : res.exc.msg[i] = Offending[1]
        /\ \E i \in DOMAIN res.exc.fmt : res.exc.fmt[i] = Offending[2]

\* The name the message uses for the quantity.
NameInMessage ==
    IF fn = "w_to_dbw" THEN "P_tx_W"
    ELSE IF fn = "ber_qpsk_uncoded_awgn_from_ebn0_lin" THEN "EbN0_lin"
    ELSE Offending[1]

\* C7 amended: every validation error carries a fixed message "<name> must be
\* <bound>" that names the quantity that violated its domain (P_tx_W for
\* w_to_dbw's P_w, EbN0_lin for ebn0_lin) and no value.
C7_NameAndBoundOnly ==
    ValidationError =>
        /\ res.exc.fmt = <<>>
        /\ Len(res.exc.msg) >= 5
        /\ res.exc.msg[1] = NameInMessage
        /\ SubSeq(res.exc.msg, 2, 3) = <<"must", "be">>

\* w_to_dbw has refused a power that is not positive.
C7_Witness ==
    Called("w_to_dbw") /\ Raised(res) /\ NonPositive(args[1])
        /\ res.exc.msg[1] = "P_tx_W"

-----------------------------------------------------------------------------
(* rb_max_for_target and ebn0_db.                                           *)

FAbs(a) == [m |-> Abs(a.m), e |-> a.e]

\* ebn0_db(CN0_dBHz, rb_max_for_target(CN0_dBHz, EbN0_req_dB, L_impl_dB), L_impl_dB)
RoundTrip == ebn0_db(args[1], res.val[1], args[3])

\* |round trip - EbN0_req_dB|
RoundTripError == FAbs(FSub(25, RoundTrip.val[1], args[2]))

\* 2^-(prec - 4) * max(1, |CN0_dBHz|, |EbN0_req_dB|, |L_impl_dB|)
RoundingBound ==
    FMul(25, Round(25, 1, 4 - prec),
         FMax(F(1), FMax(FAbs(args[1]), FMax(FAbs(args[2]), FAbs(args[3])))))

\* C9 as stated: the rate of rb_max_for_target fed back into ebn0_db is
\* accepted and gives EbN0_req_dB again.
C9_RoundTripExact ==
    Called("rb_max_for_target") =>
        /\ ~Raised(RoundTrip)
        /\ RoundTrip.val[1] = args[2]

\* C9 amended: the rate of rb_max_for_target is positive, ebn0_db accepts it,
\* and the result differs from EbN0_req_dB by rounding only: by at most
\* 2^-(p-4) * max(1, |CN0_dBHz|, |EbN0_req_dB|, |L_impl_dB|) with p-bit floats.
C9_RoundTripWithinRounding ==
    Called("rb_max_for_target") =>
        /\ ~Raised(res) /\ res.val[1].m > 0
        /\ ~Raised(RoundTrip)
        /\ FLe(RoundTripError, RoundingBound)

\* A round trip with a loss that does not give EbN0_req_dB back exactly.
C9_Witness ==
    Called("rb_max_for_target") /\ args[3].m > 0 /\ RoundTrip.val[1] # args[2]

-----------------------------------------------------------------------------
(* The script.                                                              *)

\* The inputs are in the domains of the functions the script calls.
ValidInputs ==
    /\ cfg.B_occ_hz.m > 0 /\ cfg.alpha.m >= 0
    /\ FGt(cfg.M, F(1))
    /\ cfg.f_hz.m > 0 /\ cfg.R_m.m > 0
    /\ cfg.T_sys_K.m > 0
    /\ cfg.BER_target \in 1..499999999

\* The names the script assigns, in order.
Assigned ==
    <<"Rs_sps", "Rb_gross_bps", "eta_bphz", "lambda_m", "L_fs_dB", "EIRP_dBW",
      "L_path_dB", "C_dBW", "N0_dBW_per_Hz", "CN0_dBHz", "Rb_gross_dB",
      "EbN0_avail_dB", "EbN0_avail_lin", "BER", "EbN0_req_lin", "EbN0_req_dB",
      "Margin_dB", "Rb_max_bps">>

\* The first input out of its domain in the order the script checks them, and
\* how many names are assigned before the call that checks it.
FirstBad ==
    IF cfg.B_occ_hz.m <= 0 THEN <<"B_occ_hz", 0>>
    ELSE IF cfg.alpha.m < 0 THEN <<"alpha", 0>>
    ELSE IF FLe(cfg.M, F(1)) THEN <<"M", 1>>
    ELSE IF cfg.f_hz.m <= 0 THEN <<"f_hz", 3>>
    ELSE IF cfg.R_m.m <= 0 THEN <<"R_m", 4>>
    ELSE IF cfg.T_sys_K.m <= 0 THEN <<"T_sys_K", 8>>
    ELSE <<"BER_target", 14>>

\* A failed run: the exception of the first violated check is what the caller
\* gets, exactly the assignments before it were made, no margin and no
\* maximum bit rate exist, nothing is printed.  A run that prints had valid
\* inputs and every value printed is the one calculated.
C8_AbortInv ==
    /\ pc = "traceback" =>
          /\ ~ValidInputs
          /\ res.exc.type = "ValueError" /\ res.val = <<>>
          /\ res.exc.msg[1] = FirstBad[1]
          /\ DOMAIN env = {Assigned[i] : i \in 1..FirstBad[2]}
          /\ out = <<>>
    /\ ~ValidInputs => (out = <<>> /\ pc \notin {"print", "exit"}
                          /\ {"Margin_dB", "Rb_max_bps"} \cap DOMAIN env = {})
    /\ pc = "exit" =>
          /\ ~Raised(res)
          /\ DOMAIN env = {Assigned[i] : i \in 1..Len(Assigned)}
          /\ \A i \in 1..Len(out) : out[i][2] = env[out[i][1]]

-----------------------------------------------------------------------------
(* Properties of the margin of a completed link evaluation.                 *)

\* Every calculation of lines 221-270 has been assigned.
LinkEvaluated == main = "script" /\ "Rb_max_bps" \in DOMAIN env

\* Margin_dB >= 0
MarginNonNegative == FGe(env.Margin_dB, Zero)

\* BER <= BER_target
BerMeetsTarget == env.BER <= cfg.BER_target

\* Rb_max_bps >= Rb_gross_bps
RateWithinMax == FGe(env.Rb_max_bps, env.Rb_gross_bps)

\* 2^-(prec - 4) * max(1, |CN0_dBHz|, |Rb_gross_dB|, |EbN0_req_dB|, |L_impl_dB|)
MarginAllowance ==
    FMul(25, Round(25, 1, 4 - prec),
         FMax(F(1), FMax(FAbs(env.CN0_dBHz), FMax(FAbs(env.Rb_gross_dB),
              FMax(FAbs(env.EbN0_req_dB), FAbs(cfg.L_impl_dB))))))

\* Margin_dB >= the allowance
MarginBeyondRounding == FGe(env.Margin_dB, MarginAllowance)

\* C11 as stated: in a completed link evaluation a margin >= 0 implies
\* BER <= BER_target and Rb_max_bps >= Rb_gross_bps, and BER > BER_target
\* implies a margin < 0.
C11_MarginDecides ==
    LinkEvaluated =>
        /\ MarginNonNegative => BerMeetsTarget /\ RateWithinMax
        /\ ~BerMeetsTarget => ~MarginNonNegative

\* C11 amended: in a completed link evaluation a margin of at least the
\* rounding allowance 2^-(p-4) * max(1, |CN0_dBHz|, |Rb_gross_dB|,
\* |EbN0_req_dB|, |L_impl_dB|), with p-bit floats, implies BER <= BER_target
\* and Rb_max_bps >= Rb_gross_bps, and BER > BER_target implies a margin
\* below that allowance.
C11_MarginBeyondRoundingDecides ==
    LinkEvaluated =>
        /\ MarginBeyondRounding => BerMeetsTarget /\ RateWithinMax
        /\ ~BerMeetsTarget => ~MarginBeyondRounding

\* A completed evaluation with some implementation loss left in and a margin
\* of at least the allowance, reported.
C11_Witness ==
    /\ pc = "exit"
    /\ cfg.L_impl_dB # Zero
    /\ MarginBeyondRounding
    /\ BerMeetsTarget
    /\ RateWithinMax

-----------------------------------------------------------------------------
(* Properties of ContactTimes.contactTime.                                  *)

\* The windows of the stations counted.
Selected == Collected(self.data, self.stations, 1)

\* The ticks [t, t + 1) inside some window counted.
Covered ==
    {t \in 0..(Horizon - 1) :
        \E i \in 1..Len(Selected) : Selected[i][1] <= t /\ t < Selected[i][2]}

RECURSIVE SumOver(_, _)
SumOver(f, D) ==
    IF D = {} THEN 0
    ELSE LET d == CHOOSE x \in D : TRUE IN f[d] + SumOver(f, D \ {d})

\* merged is sorted by start and no two of its intervals overlap or touch.
MergedDisjoint ==
    \A i \in 1..Len(frame.merged) :
        /\ frame.merged[i][1] <= frame.merged[i][2]
        /\ \A j \in (i + 1)..Len(frame.merged) :
               /\ frame.merged[i][1] <= frame.merged[j][1]
               /\ frame.merged[i][2] < frame.merged[j][1]

\* merged covers what the windows counted cover.
MergedCoversSelected ==
    \A t \in 0..(Horizon - 1) :
        t \in Covered <=>
            \E i \in 1..Len(frame.merged) :
                frame.merged[i][1] <= t /\ t < frame.merged[i][2]

\* Each day's value is the time covered within that day, and a day without
\* contact has no value.
PerDayConfined ==
    /\ \A d \in DOMAIN self.contactPerDay :
           self.contactPerDay[d] = Cardinality({t \in Covered : Date(t) = d})
    /\ \A t \in Covered : Date(t) \in DOMAIN self.contactPerDay

\* C12: once contactTime has run on a non-empty collection of windows, merged
\* is sorted by start and pairwise non-overlapping, totalContactTime is the
\* length of the union of the windows counted, and the values of
\* contactPerDay add up to totalContactTime, each the time covered within
\* its own day.  On an empty collection it does not return.
C12_MergedUnion ==
    /\ (pc = "constructed" =>
           /\ Selected # <<>>
           /\ MergedDisjoint
           /\ MergedCoversSelected
           /\ self.totalContactTime = Cardinality(Covered)
           /\ SumOver(self.contactPerDay, DOMAIN self.contactPerDay)
                  = self.totalContactTime
           /\ PerDayConfined)
    /\ (main = "ContactTimes" /\ pc = "traceback" => Selected = <<>>)

\* Two windows of two stations that overlap across a midnight, counted once.
C12_Witness ==
    /\ pc = "constructed"
    /\ self.stations = <<>>
    /\ Len(self.data.Delft) = 1 /\ Len(self.data.Granada) = 1
    /\ Len(frame.merged) = 1
    /\ Cardinality(DOMAIN self.contactPerDay) = 2
    /\ self.totalContactTime
           < (self.data.Delft[1][2] - self.data.Delft[1][1])
             + (self.data.Granada[1][2] - self.data.Granada[1][1])

=============================================================================
